---- MODULE Spec2Model ----
(***************************************************************************)
(* Model of bin/anthology/papers.py: class Paper.                          *)
(*                                                                         *)
(* Python values are modelled as follows.                                  *)
(*   - a str is a sequence of characters (one-character strings); the      *)
(*     characters that matter to the code are the hyphen "-" and the       *)
(*     en-dash, written EN;                                                *)
(*   - None is the value None (a sequence that is no Python string);       *)
(*   - a dict is a function whose DOMAIN is its key set;                   *)
(*   - a structured text node (an XML element) is a reference into the     *)
(*     heap `tag`, which holds every node's mutable .tag;                  *)
(*   - a list of persons is a sequence of <<person, id>> pairs;            *)
(*   - a list of revision/erratum/attachment records is a sequence of      *)
(*     records with a url field.                                           *)
(***************************************************************************)
EXTENDS Integers, Sequences, FiniteSets, TLC

VARIABLES
    volume,       \* the parent volume: attrib, collection_id, volume_id, ingest_date
    tag,          \* heap: the .tag of every structured text node
    xml_element,  \* the element handed to the last Paper.from_xml call
    outcome,      \* "none" | "built" | "raised": how the last from_xml call ended
    paper,        \* the Paper object of the last from_xml call
    cache,        \* the cached_property values computed so far on `paper`
    log,          \* the log records emitted for `paper` (from_xml and its reads)
    bibtex_out,   \* the entries of the last as_bibtex call on `paper`
    dict_out      \* the value of the last as_dict call on `paper`

vars == <<volume, tag, xml_element, outcome, paper, cache, log, bibtex_out, dict_out>>

----------------------------------------------------------------------------
(* Bounds *)

\* longest pages string drawn as input
MaxLen == 5
\* largest number of child fields of a parsed paper element
MaxFields == 2

----------------------------------------------------------------------------
(* Python values *)

None == <<"None">>
EN == "ndash"
Hyphen == "-"

EmptyDict == [k \in {} |-> None]

Put(d, key, value) ==
    [k \in (DOMAIN d) \cup {key} |-> IF k = key THEN value ELSE d[k]]

Del(d, key) == [k \in (DOMAIN d) \ {key} |-> d[k]]

\* dict.get(key, default)
DictGet(d, key, default) == IF key \in DOMAIN d THEN d[key] ELSE default

\* Python truthiness of a str-or-None value
Truthy(v) == v # None /\ v # <<>>

\* s.startswith(prefix)
StartsWith(s, prefix) ==
    /\ Len(prefix) <= Len(s)
    /\ SubSeq(s, 1, Len(prefix)) = prefix

\* the tail of s from index i on
Drop(s, i) == SubSeq(s, i, Len(s))

\* s.count(sub): the number of non-overlapping occurrences, scanning from the left
RECURSIVE StrCount(_, _)
StrCount(s, sub) ==
    IF Len(s) < Len(sub) THEN 0
    ELSE IF StartsWith(s, sub) THEN 1 + StrCount(Drop(s, Len(sub) + 1), sub)
    ELSE StrCount(Drop(s, 2), sub)

\* s.split(sub): the list of the parts between the non-overlapping occurrences
RECURSIVE SplitFrom(_, _, _)
SplitFrom(s, sub, cur) ==
    IF Len(s) < Len(sub) THEN <<cur \o s>>
    ELSE IF StartsWith(s, sub) THEN <<cur>> \o SplitFrom(Drop(s, Len(sub) + 1), sub, <<>>)
    ELSE SplitFrom(Drop(s, 2), sub, Append(cur, s[1]))

StrSplit(s, sub) == SplitFrom(s, sub, <<>>)

\* s.replace(old, new): every non-overlapping occurrence replaced, from the left
RECURSIVE StrReplace(_, _, _)
StrReplace(s, old, new) ==
    IF Len(s) < Len(old) THEN s
    ELSE IF StartsWith(s, old) THEN new \o StrReplace(Drop(s, Len(old) + 1), old, new)
    ELSE <<s[1]>> \o StrReplace(Drop(s, 2), old, new)

\* sep.join(parts)
RECURSIVE StrJoin(_, _)
StrJoin(sep, parts) ==
    IF parts = <<>> THEN <<>>
    ELSE IF Len(parts) = 1 THEN parts[1]
    ELSE parts[1] \o sep \o StrJoin(sep, Tail(parts))

----------------------------------------------------------------------------
(* Collaborators of papers.py that live in other modules of the repository *)

\* utils.build_anthology_id(collection_id, volume_id, paper_id)
build_anthology_id(collection_id, volume_id, paper_id) ==
    collection_id \o <<"-">> \o volume_id \o <<".">> \o paper_id

\* utils.is_journal(anthology_id): decided by the collection part of the identifier
is_journal(anthology_id) == anthology_id[1] = "J"

\* utils.parse_element(xml_element).items(): the child fields, in document order
parse_element(x) == x.fields

\* xml_element.get(name, default): an XML attribute of the element
XmlGet(x, name, default) == DictGet(x.attrs, name, default)

\* data.UNKNOWN_INGEST_DATE, the sentinel date (a non-empty string)
UNKNOWN_INGEST_DATE == <<"1", "9", "0", "0">>

\* utils.infer_url(filename, template)
infer_url(filename, template) == <<template>> \o filename

\* data.PDF_LOCATION_TEMPLATE.format(url)
PdfLocation(url) == <<"PDF_LOCATION_TEMPLATE">> \o url

\* utils.infer_attachment_url(url, full_id)
infer_attachment_url(url, full_id) == <<"ATTACHMENT_TEMPLATE">> \o url

\* None where a structured text node is expected
NoNode == "None"

\* the formatter callable: formatter(node, form); the rendering depends on the
\* node's content (its identity here) and on the form, not on its tag
Formatter(node, form) == <<form, node>>

\* Volume.get(name, default=None)
VolumeGet(v, name) == DictGet(v.attrib, name, None)

\* Person.full of the person of a (person, id) pair
PersonFull(x) == <<x[1]>>

\* formatter.bibtex_encode(value)
bibtex_encode(value) == <<"bibtex_encode", value>>

----------------------------------------------------------------------------
(* Paper.__init__ *)

\* the keys __init__ never inherits from the volume (lines 49-63)
ExcludedKeys ==
    { "collection_id", "booktitle", "id", "meta_data", "meta_journal_title",
      "meta_volume", "meta_issue", "sigs", "venues", "meta_date", "url", "pdf",
      "xml_url" }

\* SkipInherit with xml_url missing from the exclusion list
SkipInherit_XmlUrlInherited(key, isVolume) ==
    (key = "editor" /\ ~isVolume) \/ key \in ExcludedKeys \ {"xml_url"}

\* the condition of the `continue` at lines 49-64
SkipInherit(key, isVolume) ==
    (key = "editor" /\ ~isVolume) \/ key \in ExcludedKeys

\* lines 45-66: the attrib inherited from the volume
Inherit(vattrib, isVolume) ==
    [k \in {key \in DOMAIN vattrib : ~SkipInherit(key, isVolume)} |-> vattrib[k]]

\* Paper.__init__(paper_id, ingest_date, volume, formatter), lines 37-66
NewPaper(paper_id, ingest_date, v) ==
    [ _id          |-> paper_id,
      _ingest_date |-> ingest_date,
      _bibkey      |-> None,
      is_volume    |-> (paper_id = <<"0">>),
      attrib       |-> Inherit(v.attrib, paper_id = <<"0">>) ]

\* Paper.anthology_id / full_id, lines 209-215
FullId(p, v) == build_anthology_id(v.collection_id, v.volume_id, p._id)

----------------------------------------------------------------------------
(* Paper.from_xml, lines 119-174.  A construction in progress is a record    *)
(* [p: the paper, cache: its cached properties, tag: the node heap,          *)
(*  log: the records logged, raised: whether an exception ended the call].   *)

\* a read of paper.full_id: anthology_id is a cached_property (lines 209-215)
WithFullId(st, v) ==
    [st EXCEPT !.cache = Put(st.cache, "anthology_id", FullId(st.p, v))]

\* one iteration of the overlay loop, lines 127-133
OverlayOne(p, key, value) ==
    LET a1 == IF key = "author" /\ "editor" \in DOMAIN p.attrib
              THEN Del(p.attrib, "editor") ELSE p.attrib
    IN  IF key = "bibkey"
        THEN [p EXCEPT !.attrib = a1, !._bibkey = value]
        ELSE [p EXCEPT !.attrib = Put(a1, key, value)]

\* the overlay loop, lines 127-133
RECURSIVE Overlay(_, _)
Overlay(p, fields) ==
    IF fields = <<>> THEN p
    ELSE Overlay(OverlayOne(p, fields[1][1], fields[1][2]), Tail(fields))

\* lines 135-138: the front matter's title is the booktitle node, retagged
FrontmatterTitle(st) ==
    IF st.raised \/ ~st.p.is_volume THEN st
    ELSE IF "xml_booktitle" \notin DOMAIN st.p.attrib
    THEN [st EXCEPT !.raised = TRUE]
    ELSE [st EXCEPT
            !.p.attrib = Put(st.p.attrib, "xml_title", st.p.attrib["xml_booktitle"]),
            !.tag = [st.tag EXCEPT ![st.p.attrib["xml_booktitle"]] = "title"]]

\* lines 140-142: del paper.attrib["xml_booktitle"] for front matter and journals
RemoveBooktitle(st, v) ==
    LET st1 == IF st.p.is_volume THEN st ELSE WithFullId(st, v)
    IN  IF st.raised THEN st
        ELSE IF ~(st.p.is_volume \/ is_journal(FullId(st.p, v))) THEN st1
        ELSE IF "xml_booktitle" \notin DOMAIN st.p.attrib
        THEN [st1 EXCEPT !.raised = TRUE]
        ELSE [st1 EXCEPT !.p.attrib = Del(st.p.attrib, "xml_booktitle")]

\* ReconcileEditor that keeps the front matter's author and drops its editor
ReconcileEditor_AuthorKept(st, v) ==
    IF st.raised \/ "editor" \notin DOMAIN st.p.attrib THEN st
    ELSE IF st.p.is_volume
    THEN IF "author" \in DOMAIN st.p.attrib
         THEN [WithFullId(st, v) EXCEPT
                 !.log = Append(st.log, <<"warn", "ignoring <editor>">>),
                 !.p.attrib = Del(st.p.attrib, "editor")]
         ELSE [st EXCEPT !.p.attrib =
                 Del(Put(st.p.attrib, "author", st.p.attrib["editor"]), "editor")]
    ELSE [WithFullId(st, v) EXCEPT
            !.log = Append(st.log, <<"warn", "ignoring <editor>">>)]

\* lines 144-156: editors become the authors of the front matter
ReconcileEditor(st, v) ==
    IF st.raised \/ "editor" \notin DOMAIN st.p.attrib THEN st
    ELSE IF st.p.is_volume
    THEN LET st1 == IF "author" \in DOMAIN st.p.attrib
                    THEN [WithFullId(st, v) EXCEPT
                            !.log = Append(st.log, <<"warn", "ignoring <author>">>)]
                    ELSE st
         IN  [st1 EXCEPT !.p.attrib =
                Del(Put(st.p.attrib, "author", st.p.attrib["editor"]), "editor")]
    ELSE [WithFullId(st, v) EXCEPT
            !.log = Append(st.log, <<"warn", "ignoring <editor>">>)]

\* the separators of _interpret_pages, line 180, in the order tried
Separators == << <<Hyphen, Hyphen>>, <<Hyphen>>, <<EN>> >>

\* Paper._interpret_pages, lines 176-186, trying the separators from index i on;
\* the tuple assignment of line 182 raises unless split() yields two parts
RECURSIVE InterpretFrom(_, _)
InterpretFrom(st, i) ==
    IF i > Len(Separators) THEN st
    ELSE LET s     == Separators[i]
             pages == st.p.attrib["pages"]
             parts == StrSplit(pages, s)
         IN  IF StrCount(pages, s) = 1
             THEN IF Len(parts) # 2
                  THEN [st EXCEPT !.raised = TRUE]
                  ELSE [st EXCEPT !.p.attrib =
                            Put(Put(Put(st.p.attrib, "page_first", parts[1]),
                                    "page_last", parts[2]),
                                "pages", StrReplace(pages, s, <<EN>>))]
             ELSE InterpretFrom(st, i + 1)

\* _interpret_pages that does not try the double hyphen
_interpret_pages_NoDoubleHyphen(st) == InterpretFrom(st, 2)

\* Paper._interpret_pages, lines 176-186
_interpret_pages(st) == InterpretFrom(st, 1)

\* lines 157-161
NormalizePages(st) ==
    IF st.raised \/ "pages" \notin DOMAIN st.p.attrib THEN st
    ELSE IF st.p.attrib["pages"] # None THEN _interpret_pages(st)
    ELSE [st EXCEPT !.p.attrib = Del(st.p.attrib, "pages")]

\* lines 163-166
AuthorString(st) ==
    IF st.raised \/ "author" \notin DOMAIN st.p.attrib THEN st
    ELSE [st EXCEPT !.p.attrib =
            Put(st.p.attrib, "author_string",
                StrJoin(<<",", " ">>,
                        [i \in 1..Len(st.p.attrib["author"]) |->
                            PersonFull(st.p.attrib["author"][i])]))]

\* lines 168-172
RetractedPlaceholder(st) ==
    IF st.raised THEN st
    ELSE IF "retracted" \in DOMAIN st.p.attrib /\ st.p.attrib["retracted"] = None
    THEN [st EXCEPT !.p.attrib = Put(st.p.attrib, "retracted", <<" ">>)]
    ELSE st

\* Paper.from_xml(xml_element, volume, formatter), lines 119-174
from_xml(x, v, heap) ==
    LET ingest_date == XmlGet(x, "ingest-date", UNKNOWN_INGEST_DATE)
        p0 == NewPaper(XmlGet(x, "id", <<"0">>), ingest_date, v)
        st0 == [p |-> Overlay(p0, parse_element(x)), cache |-> EmptyDict,
                tag |-> heap, log |-> <<>>, raised |-> FALSE]
    IN  RetractedPlaceholder(
          AuthorString(
            NormalizePages(
              ReconcileEditor(
                RemoveBooktitle(
                  FrontmatterTitle(st0), v), v))))

\* Paper.ingest_date, lines 188-195; hasVolume is the truth value of
\* self.parent_volume
IngestDate(p, v, hasVolume) ==
    IF Truthy(p._ingest_date) THEN p._ingest_date
    ELSE IF hasVolume THEN v.ingest_date
    ELSE UNKNOWN_INGEST_DATE

----------------------------------------------------------------------------
(* Derived fields.  An object state is a record [p, cache, log]; reading a   *)
(* cached_property computes it on the first read only.                       *)

\* Paper.bibtype, lines 225-232
BibType(p, v) ==
    IF is_journal(FullId(p, v)) THEN "article"
    ELSE IF p.is_volume THEN "proceedings"
    ELSE "inproceedings"

\* Paper.get(name, default=None) for a string-valued field, lines 265-269
Get(p, name) == DictGet(p.attrib, name, None)

\* Paper.get_title(form), lines 271-280
get_title(p, form) == Formatter(DictGet(p.attrib, "xml_title", NoNode), form)

\* get_booktitle that returns the default for front matter and journals
get_booktitle_DefaultWhenSuppressed(p, v, hasVolume, form) ==
    IF "xml_booktitle" \in DOMAIN p.attrib
    THEN Formatter(p.attrib["xml_booktitle"], form)
    ELSE IF hasVolume /\ ~p.is_volume /\ ~is_journal(FullId(p, v))
    THEN VolumeGet(v, "title")
    ELSE <<>>

\* Paper.get_booktitle(form, default=""), lines 289-299; hasVolume is
\* `self.parent_volume is not None`
get_booktitle(p, v, hasVolume, form) ==
    IF "xml_booktitle" \in DOMAIN p.attrib
    THEN Formatter(p.attrib["xml_booktitle"], form)
    ELSE IF hasVolume THEN VolumeGet(v, "title")
    ELSE <<>>

\* the loop of _parse_revision_or_errata (lines 82-90) over the records from i on
RECURSIVE ExpandFrom(_, _, _, _)
ExpandFrom(os, name, i, v) ==
    IF i > Len(os.p.attrib[name]) THEN os
    ELSE LET url == os.p.attrib[name][i].url
             os1 == IF StartsWith(url, FullId(os.p, v)) THEN os
                    ELSE [os EXCEPT !.log = Append(os.log, <<"error", name>>)]
         IN  ExpandFrom([os1 EXCEPT !.p.attrib[name][i].url = PdfLocation(url)],
                        name, i + 1, v)

\* Paper._parse_revision_or_errata(tag), lines 81-91: the records are rewritten
\* in place, and the list kept in attrib is returned
_parse_revision_or_errata(os, name, v) ==
    LET os1 == IF name \in DOMAIN os.p.attrib /\ os.p.attrib[name] # <<>>
               THEN ExpandFrom([os EXCEPT !.cache =
                                    Put(os.cache, "anthology_id", FullId(os.p, v))],
                               name, 1, v)
               ELSE os
    IN  [os |-> os1, value |-> DictGet(os1.p.attrib, name, <<>>)]

\* the body of Paper.attachments, lines 101-105
Attachments(os, v) ==
    LET has == "attachment" \in DOMAIN os.p.attrib /\ os.p.attrib["attachment"] # <<>>
        recs == DictGet(os.p.attrib, "attachment", <<>>)
        os1 == IF has
               THEN [os EXCEPT
                       !.cache = Put(os.cache, "anthology_id", FullId(os.p, v)),
                       !.p.attrib["attachment"] =
                           [i \in 1..Len(recs) |->
                               [recs[i] EXCEPT
                                  !.url = infer_attachment_url(recs[i].url,
                                                               FullId(os.p, v))]]]
               ELSE os
    IN  [os |-> os1, value |-> DictGet(os1.p.attrib, "attachment", <<>>)]

\* the bodies of the cached properties, lines 68-117 and 213-215
Compute(os, name, v) ==
    LET idCached == [os EXCEPT !.cache = Put(os.cache, "anthology_id", FullId(os.p, v))]
    IN  CASE name = "url" ->
               [os |-> idCached,
                value |-> infer_url(DictGet(os.p.attrib, "xml_url", FullId(os.p, v)),
                                    "CANONICAL_URL_TEMPLATE")]
          [] name = "pdf" ->
               [os |-> os,
                value |-> IF Get(os.p, "xml_url") # None
                          THEN infer_url(os.p.attrib["xml_url"], "PDF_LOCATION_TEMPLATE")
                          ELSE None]
          [] name = "revisions" -> _parse_revision_or_errata(os, "revision", v)
          [] name = "errata" -> _parse_revision_or_errata(os, "erratum", v)
          [] name = "attachments" -> Attachments(os, v)
          [] name = "thumbnail" ->
               [os |-> idCached,
                value |-> <<"PDF_THUMBNAIL_LOCATION_TEMPLATE">> \o FullId(os.p, v)]
          [] name = "title" -> [os |-> os, value |-> get_title(os.p, "plain")]
          [] name = "booktitle" ->
               [os |-> os, value |-> get_booktitle(os.p, v, TRUE, "plain")]
          [] name = "anthology_id" -> [os |-> os, value |-> FullId(os.p, v)]

\* a property that is computed again at every read
Touch_Uncached(os, name, v) ==
    LET r == Compute(os, name, v)
    IN  [r.os EXCEPT !.cache = Put(r.os.cache, name, r.value)]

\* functools.cached_property: the first read computes and stores the value,
\* a later read returns the stored value
Touch(os, name, v) ==
    IF name \in DOMAIN os.cache THEN os
    ELSE LET r == Compute(os, name, v)
         IN  [r.os EXCEPT !.cache = Put(r.os.cache, name, r.value)]

\* reads of several cached properties, in order
RECURSIVE TouchAll(_, _, _)
TouchAll(os, names, v) ==
    IF names = <<>> THEN os
    ELSE TouchAll(Touch(os, names[1], v), Tail(names), v)

\* Paper.language, lines 257-263 (the name looked up in the iso639 table)
Language(p) ==
    IF Truthy(Get(p, "language")) THEN <<"iso639">> \o p.attrib["language"] ELSE None

----------------------------------------------------------------------------
(* Export *)

\* Person.as_bibtex() of the person of a (person, id) pair
PersonBibtex(x) == <<x[1], "as_bibtex">>

\* Volume.get_title(form): the volume's title is its booktitle node
VolumeGetTitle(v, form) == Formatter(DictGet(v.attrib, "xml_booktitle", NoNode), form)

\* Volume.full_id
VolumeFullId(v) == v.collection_id \o <<"-">> \o v.volume_id

\* <<entry>> when cond holds, else no entry
EntryIf(cond, name, value) == IF cond THEN << <<name, value>> >> ELSE <<>>

\* lines 307-311: the author and editor entries
PeopleEntries(p) ==
    LET one(people) ==
            IF people \in DOMAIN p.attrib
            THEN << <<people,
                      StrJoin(<<" and ">>,
                              [i \in 1..Len(p.attrib[people]) |->
                                  PersonBibtex(p.attrib[people][i])])>> >>
            ELSE <<>>
    IN  one("author") \o one("editor")

\* lines 312-331: the journal entries, or the booktitle entry
VenueEntries(p, v) ==
    IF is_journal(FullId(p, v))
    THEN LET journal_volume == DictGet(v.attrib, "meta_volume", VolumeGet(v, "volume"))
             journal_issue == DictGet(v.attrib, "meta_issue", VolumeGet(v, "issue"))
         IN  << <<"journal", bibtex_encode(VolumeGet(v, "meta_journal_title"))>> >>
             \o EntryIf(Truthy(journal_volume), "volume", journal_volume)
             \o EntryIf(Truthy(journal_issue), "number", journal_issue)
    ELSE IF "xml_booktitle" \in DOMAIN p.attrib
    THEN << <<"booktitle", get_booktitle(p, v, TRUE, "latex")>> >>
    ELSE EntryIf(BibType(p, v) # "proceedings", "booktitle", VolumeGetTitle(v, "latex"))

\* lines 332-334: the plain fields, bibtex-encoded
RECURSIVE PlainEntries(_, _)
PlainEntries(p, names) ==
    IF names = <<>> THEN <<>>
    ELSE EntryIf(Get(p, names[1]) # None, names[1], bibtex_encode(Get(p, names[1])))
         \o PlainEntries(p, Tail(names))

\* PagesEntry that emits the display form as it is
PagesEntry_DisplayForm(p) ==
    EntryIf("pages" \in DOMAIN p.attrib, "pages", Get(p, "pages"))

\* lines 341-342: the pages entry, en-dashes written as double hyphens
PagesEntry(p) ==
    EntryIf("pages" \in DOMAIN p.attrib, "pages",
            StrReplace(Get(p, "pages"), <<EN>>, <<Hyphen, Hyphen>>))

\* Paper.as_bibtex(concise), lines 301-351: the arguments of bibtex_make_entry;
\* url is the value of the cached property self.url
as_bibtex(p, v, url, concise) ==
    [ bibkey  |-> p._bibkey,
      bibtype |-> BibType(p, v),
      entries |->
          << <<"title", get_title(p, "latex")>> >>
          \o PeopleEntries(p)
          \o VenueEntries(p, v)
          \o PlainEntries(p, <<"month", "year", "address", "publisher", "note">>)
          \o EntryIf(url # None, "url", url)
          \o EntryIf("doi" \in DOMAIN p.attrib, "doi", Get(p, "doi"))
          \o PagesEntry(p)
          \o EntryIf("xml_abstract" \in DOMAIN p.attrib /\ ~concise, "abstract",
                     Formatter(DictGet(p.attrib, "xml_abstract", NoNode), "latex"))
          \o EntryIf(Truthy(Language(p)), "language", Language(p))
          \o EntryIf(Truthy(Get(p, "isbn")), "ISBN", Get(p, "isbn")) ]

\* the properties as_dict reads, in the order of lines 355-371 (bibtype and
\* url read full_id first)
DictReads ==
    <<"anthology_id", "url", "title", "booktitle", "pdf", "revisions", "errata",
      "attachments", "thumbnail">>

\* put key -> value when cond holds
PutIf(d, cond, key, value) == IF cond THEN Put(d, key, value) ELSE d

\* Paper.as_dict(), lines 353-372, on the object state reached by its reads:
\* the copy of attrib is shallow, so it shares the record lists with attrib
as_dict(os, v) ==
    LET c == os.cache
        d1 == Put(os.p.attrib, "paper_id", os.p._id)
        d2 == Put(d1, "parent_volume_id", VolumeFullId(v))
        d3 == Put(d2, "bibkey", os.p._bibkey)
        d4 == Put(d3, "bibtype", BibType(os.p, v))
        d5 == Put(d4, "language", Language(os.p))
        d6 == Put(d5, "url", c["url"])
        d7 == Put(d6, "title", c["title"])
        d8 == Put(d7, "booktitle", c["booktitle"])
        d9 == PutIf(d8, Truthy(c["pdf"]), "pdf", c["pdf"])
        d10 == PutIf(d9, c["revisions"] # <<>>, "revision", c["revisions"])
        d11 == PutIf(d10, c["errata"] # <<>>, "erratum", c["errata"])
        d12 == PutIf(d11, c["attachments"] # <<>>, "attachment", c["attachments"])
    IN  Put(d12, "thumbnail", c["thumbnail"])

----------------------------------------------------------------------------
(* State machine *)

\* the object state of the current paper
Obj == [p |-> paper, cache |-> cache, log |-> log]

\* the nodes of the heap: the volume's booktitle node, and the booktitle and
\* title nodes the parser creates for a paper element
InitTag == [n \in {"vb", "pb", "pt"} |-> IF n = "pt" THEN "title" ELSE "booktitle"]

\* the parser creates new nodes for every element it parses
FreshTags(heap) == [heap EXCEPT !["pb"] = "booktitle", !["pt"] = "title"]

NoElement == [attrs |-> EmptyDict, fields |-> <<>>]
NoPaper ==
    [_id |-> <<>>, _ingest_date |-> None, _bibkey |-> None, is_volume |-> FALSE,
     attrib |-> EmptyDict]
NoBibtex == [bibkey |-> None, bibtype |-> "none", entries |-> <<>>]

InitWith(Volumes) ==
    /\ volume \in Volumes
    /\ tag = InitTag
    /\ xml_element = NoElement
    /\ outcome = "none"
    /\ paper = NoPaper
    /\ cache = EmptyDict
    /\ log = <<>>
    /\ bibtex_out = NoBibtex
    /\ dict_out = EmptyDict

\* paper = Paper.from_xml(x, volume, formatter) for an element x of Elements;
\* from_xml reads nothing of an earlier paper, so it is taken from the states
\* without one
FromXml(Elems) ==
    /\ outcome = "none"
    /\ \E x \in Elems :
          LET r == from_xml(x, volume, FreshTags(tag))
          IN  /\ xml_element' = x
              /\ outcome' = IF r.raised THEN "raised" ELSE "built"
              /\ paper' = r.p
              /\ cache' = r.cache
              /\ log' = r.log
              /\ tag' = r.tag
    /\ UNCHANGED <<volume, bibtex_out, dict_out>>

\* the caller is done with the paper (or with the exception from_xml raised)
\* and goes on to the next element; the volume and the node heap stay
Forget ==
    /\ outcome # "none"
    /\ xml_element' = NoElement
    /\ outcome' = "none"
    /\ paper' = NoPaper
    /\ cache' = EmptyDict
    /\ log' = <<>>
    /\ bibtex_out' = NoBibtex
    /\ dict_out' = EmptyDict
    /\ UNCHANGED <<volume, tag>>

\* a read of one of the cached properties Props of the paper
Read(Props) ==
    /\ outcome = "built"
    /\ \E name \in Props :
          LET os == Touch(Obj, name, volume)
          IN  /\ paper' = os.p
              /\ cache' = os.cache
              /\ log' = os.log
    /\ UNCHANGED <<volume, tag, xml_element, outcome, bibtex_out, dict_out>>

\* paper.as_dict()
AsDict ==
    /\ outcome = "built"
    /\ LET os == TouchAll(Obj, DictReads, volume)
       IN  /\ paper' = os.p
           /\ cache' = os.cache
           /\ log' = os.log
           /\ dict_out' = as_dict(os, volume)
    /\ UNCHANGED <<volume, tag, xml_element, outcome, bibtex_out>>

\* paper.as_bibtex(concise)
AsBibtex ==
    /\ outcome = "built"
    /\ \E concise \in BOOLEAN :
          LET os == TouchAll(Obj, <<"anthology_id", "url">>, volume)
          IN  /\ paper' = os.p
              /\ cache' = os.cache
              /\ log' = os.log
              /\ bibtex_out' = as_bibtex(os.p, volume, os.cache["url"], concise)
    /\ UNCHANGED <<volume, tag, xml_element, outcome, dict_out>>

\* paper.bibkey = value, lines 221-223
SetBibkey(Keys) ==
    /\ outcome = "built"
    /\ \E value \in Keys : paper' = [paper EXCEPT !._bibkey = value]
    /\ UNCHANGED <<volume, tag, xml_element, outcome, cache, log, bibtex_out, dict_out>>

----------------------------------------------------------------------------
(* Inputs *)

\* the values a volume's attrib holds under each key
VolumeValue(k) ==
    CASE k = "editor" -> << <<"E", "e1">> >>
      [] k = "author" -> << <<"A", "a1">> >>
      [] k = "xml_booktitle" -> "vb"
      [] k = "title" -> <<"T">>
      [] OTHER -> <<"x">>

VDate == <<"2", "0", "2", "0">>

VolumeOf(keys, coll) ==
    [ attrib        |-> [k \in keys |-> VolumeValue(k)],
      collection_id |-> coll,
      volume_id     |-> <<"1">>,
      ingest_date   |-> VDate ]

\* sequences without repeated keys (a dict has each key once) of at most n of
\* the <<key, value>> pairs in Choices
RECURSIVE FieldSeqs(_, _)
FieldSeqs(Choices, n) ==
    IF n = 0 THEN {<<>>}
    ELSE LET shorter == FieldSeqs(Choices, n - 1)
         IN  shorter \cup
             { Append(fs, c) : <<fs, c>> \in
                 { pr \in shorter \X Choices :
                     \A i \in 1..Len(pr[1]) : pr[1][i][1] # pr[2][1] } }

\* the XML attributes of a paper element: id and ingest-date, each optional
AttrChoices ==
    { [k \in ks |-> IF k = "id" THEN i ELSE <<"2", "0", "1", "9">>] :
        <<ks, i>> \in (SUBSET {"id", "ingest-date"}) \X {<<"0">>, <<"1">>} }

\* all strings of at most n of the characters in Chars
RECURSIVE Strings(_, _)
Strings(Chars, n) ==
    IF n = 0 THEN {<<>>}
    ELSE LET shorter == Strings(Chars, n - 1)
         IN  shorter \cup { Append(s, c) : <<s, c>> \in shorter \X Chars }

----------------------------------------------------------------------------
(* Construction of papers from arbitrary volumes and elements *)

\* a volume always has a title; its editor, author and booktitle node are
\* optional, and so are the volume-only keys
Volumes ==
    { VolumeOf({"title"} \cup ks \cup xs, coll) :
        <<ks, xs, coll>> \in (SUBSET {"editor", "author", "xml_booktitle"})
                             \X {{}, ExcludedKeys} \X {<<"P">>, <<"J">>} }

FieldChoices ==
    { <<"author", << <<"A2", "a2">> >> >>,
      <<"editor", << <<"E2", "e2">> >> >>,
      <<"xml_booktitle", "pb">>,
      <<"xml_url", <<"u">> >>,
      <<"pages", None>>,
      <<"retracted", None>>,
      <<"bibkey", <<"k">> >> }

Elements ==
    { [attrs |-> a, fields |-> fs] :
        <<a, fs>> \in AttrChoices \X FieldSeqs(FieldChoices, MaxFields) }

Init == InitWith(Volumes)

Next ==
    \/ FromXml(Elements)
    \/ AsDict
    \/ Forget

Spec == Init /\ [][Next]_vars

----------------------------------------------------------------------------
(* Properties of Paper.from_xml *)

\* from_xml returned a paper
Built == outcome = "built"

\* the keys of the parsed fields of the element of the last call
FieldKeys == { xml_element.fields[i][1] : i \in 1..Len(xml_element.fields) }

\* the value the parsed fields of the element give to key
FieldValue(key) ==
    LET i == CHOOSE j \in 1..Len(xml_element.fields) : xml_element.fields[j][1] = key
    IN  xml_element.fields[i][2]

\* the warnings from_xml logged
Warnings == SelectSeq(log, LAMBDA r : r[1] = "warn")

IsFrontMatter == XmlGet(xml_element, "id", <<"0">>) = <<"0">>

\* C1 as stated: after from_xml, attrib holds none of the volume-only keys
\* excluded during inheritance, whatever the volume and the parsed fields.
C1_NoExcludedKey ==
    Built => (DOMAIN paper.attrib) \cap ExcludedKeys = {}

\* C1 amended: no excluded key is inherited from the volume; attrib holds an
\* excluded key exactly when the paper's own parsed fields hold it, and then
\* with the paper's own value.
C1_ExcludedKeyOnlyFromOwnFields ==
    Built =>
        /\ (DOMAIN paper.attrib) \cap ExcludedKeys = FieldKeys \cap ExcludedKeys
        /\ \A k \in FieldKeys \cap ExcludedKeys : paper.attrib[k] = FieldValue(k)

C1_Witness ==
    /\ Built
    /\ ExcludedKeys \subseteq DOMAIN volume.attrib
    /\ "xml_url" \in DOMAIN paper.attrib
    /\ \A k \in ExcludedKeys \ {"xml_url"} : k \notin DOMAIN paper.attrib

\* C2: after from_xml, attrib holds at most one of author and editor, and a
\* paper that is not the front matter has no editor key.
C2_AtMostOneOfAuthorEditor ==
    Built =>
        /\ ~({"author", "editor"} \subseteq DOMAIN paper.attrib)
        /\ (~IsFrontMatter => "editor" \notin DOMAIN paper.attrib)

\* C3 as stated: a front-matter paper whose volume has an editor list E, with
\* an author list from the volume or from its own fields, ends with author = E,
\* no editor and exactly one warning.
C3_EditorPromoted ==
    ( /\ Built
      /\ IsFrontMatter
      /\ "editor" \in DOMAIN volume.attrib
      /\ "author" \in (DOMAIN volume.attrib) \cup FieldKeys )
    => /\ "author" \in DOMAIN paper.attrib
       /\ paper.attrib["author"] = volume.attrib["editor"]
       /\ "editor" \notin DOMAIN paper.attrib
       /\ Len(Warnings) = 1

\* C3 amended: when from_xml returns a front-matter paper whose volume has an
\* editor list E and an author list, and whose own fields have neither author
\* nor editor, author = E, there is no editor and exactly one warning; when the
\* author list comes from the paper's own fields (and they have no editor), the
\* overlay drops the inherited editor: author is the own list, no warning.
C3_EditorPromotedOverVolumeAuthor ==
    /\ ( /\ Built
         /\ IsFrontMatter
         /\ {"editor", "author"} \subseteq DOMAIN volume.attrib
         /\ FieldKeys \cap {"editor", "author"} = {} )
       => /\ "author" \in DOMAIN paper.attrib
          /\ paper.attrib["author"] = volume.attrib["editor"]
          /\ "editor" \notin DOMAIN paper.attrib
          /\ Len(Warnings) = 1
    /\ ( /\ Built
         /\ IsFrontMatter
         /\ "editor" \in DOMAIN volume.attrib
         /\ "author" \in FieldKeys
         /\ "editor" \notin FieldKeys )
       => /\ "author" \in DOMAIN paper.attrib
          /\ paper.attrib["author"] = FieldValue("author")
          /\ "editor" \notin DOMAIN paper.attrib
          /\ Len(Warnings) = 0

C3_Witness ==
    /\ Built
    /\ IsFrontMatter
    /\ {"editor", "author"} \subseteq DOMAIN volume.attrib
    /\ FieldKeys \cap {"editor", "author"} = {}
    /\ paper.attrib["author"] = volume.attrib["editor"]
    /\ Len(Warnings) = 1

\* C5: from_xml always completes without raising.
C5_NeverRaises == outcome # "raised"

\* C6: the ingest_date of a paper is its own ingest-date when the element has
\* one, and the parent volume's ingest_date when it has none.
C6_IngestDateInherited ==
    Built =>
        IngestDate(paper, volume, TRUE) =
            IF "ingest-date" \in DOMAIN xml_element.attrs
            THEN xml_element.attrs["ingest-date"]
            ELSE volume.ingest_date

\* C8: a call of from_xml changes neither the volume's attribute mapping nor
\* the tag of the volume's booktitle node.
C8_VolumeUnchanged ==
    [][volume' = volume /\ tag'["vb"] = tag["vb"]]_vars

\* the value of the cached property paper.booktitle
DerivedBooktitle ==
    IF "booktitle" \in DOMAIN cache THEN cache["booktitle"]
    ELSE get_booktitle(paper, volume, TRUE, "plain")

\* the paper is journal-style
IsJournalPaper == is_journal(FullId(paper, volume))

\* C10 as stated: the derived booktitle is the rendering of the paper's
\* booktitle node when it has one, the volume's title when it has none and is
\* neither front matter nor journal-style, and the empty string for a
\* front-matter or journal-style paper; as_dict()["booktitle"] likewise.
C10_BooktitleEmptyWhenSuppressed ==
    Built =>
        LET expected ==
                IF "xml_booktitle" \in DOMAIN paper.attrib
                THEN Formatter(paper.attrib["xml_booktitle"], "plain")
                ELSE IF ~paper.is_volume /\ ~IsJournalPaper
                THEN VolumeGet(volume, "title")
                ELSE <<>>
        IN  /\ DerivedBooktitle = expected
            /\ "booktitle" \in DOMAIN dict_out => dict_out["booktitle"] = expected

\* C10 amended: the derived booktitle is the rendering of the booktitle node
\* in attrib when there is one, and else the volume's title attribute (None
\* when the volume has none); a front-matter or journal-style paper has no
\* booktitle node, so its derived booktitle is the volume's title attribute.
C10_BooktitleFallsBackToVolumeTitle ==
    Built =>
        LET expected ==
                IF "xml_booktitle" \in DOMAIN paper.attrib
                THEN Formatter(paper.attrib["xml_booktitle"], "plain")
                ELSE VolumeGet(volume, "title")
        IN  /\ DerivedBooktitle = expected
            /\ "booktitle" \in DOMAIN dict_out => dict_out["booktitle"] = expected
            /\ (paper.is_volume \/ IsJournalPaper) =>
                  /\ "xml_booktitle" \notin DOMAIN paper.attrib
                  /\ DerivedBooktitle = VolumeGet(volume, "title")

C10_Witness ==
    /\ Built
    /\ paper.is_volume
    /\ "booktitle" \in DOMAIN dict_out
    /\ dict_out["booktitle"] = <<"T">>

----------------------------------------------------------------------------
(* Pages: construction and bibliography export of papers with a pages field *)

PageChars == {"1", Hyphen, EN}

PagesVolumes == { VolumeOf({"title", "xml_booktitle"}, <<"P">>) }

PagesElements ==
    { [attrs |-> [k \in {"id"} |-> i], fields |-> fs] :
        <<i, fs>> \in {<<"0">>, <<"1">>}
                      \X ({<<>>, << <<"pages", None>> >>}
                          \cup { << <<"pages", s>> >> : s \in Strings(PageChars, MaxLen) }) }

InitPages == InitWith(PagesVolumes)

NextPages ==
    \/ FromXml(PagesElements)
    \/ AsBibtex
    \/ Forget

SpecPages == InitPages /\ [][NextPages]_vars

\* the positions at which sub occurs in s
Positions(s, sub) ==
    { i \in 1..(Len(s) - Len(sub) + 1) : SubSeq(s, i, i + Len(sub) - 1) = sub }

\* the element has a pages field that is a string
HasPagesString == "pages" \in FieldKeys /\ FieldValue("pages") # None

\* the recognized separators in the order double hyphen, hyphen, en-dash
SeparatorOrder == << <<"-", "-">>, <<"-">>, <<"ndash">> >>

\* the separators that occur exactly once in s (occurrences counted as
\* str.count counts them), by their index in SeparatorOrder
OnceSeparators(s) ==
    { i \in 1..Len(SeparatorOrder) : StrCount(s, SeparatorOrder[i]) = 1 }

\* C4: pages interpretation acts on the first of double hyphen, hyphen,
\* en-dash that occurs exactly once in the pages string: page_first and
\* page_last are the parts before and after that occurrence and pages is the
\* string with that occurrence replaced by an en-dash; when none of the three
\* occurs exactly once, pages is unchanged and page_first and page_last are
\* not set.
C4_PagesSplitAtFirstOnceSeparator ==
    (Built /\ HasPagesString) =>
        LET orig == FieldValue("pages")
            once == OnceSeparators(orig)
        IN  IF once = {}
            THEN /\ paper.attrib["pages"] = orig
                 /\ (DOMAIN paper.attrib) \cap {"page_first", "page_last"} = {}
            ELSE LET sep == SeparatorOrder[CHOOSE i \in once : \A j \in once : i <= j]
                     at == CHOOSE i \in Positions(orig, sep) :
                              \A j \in Positions(orig, sep) : i <= j
                     before == SubSeq(orig, 1, at - 1)
                     after == SubSeq(orig, at + Len(sep), Len(orig))
                 IN  /\ {"page_first", "page_last"} \subseteq DOMAIN paper.attrib
                     /\ paper.attrib["page_first"] = before
                     /\ paper.attrib["page_last"] = after
                     /\ paper.attrib["pages"] = before \o <<EN>> \o after

\* "145--160" with one-digit page numbers: "1--1"
C4_Witness ==
    /\ Built
    /\ HasPagesString
    /\ FieldValue("pages") = <<"1", Hyphen, Hyphen, "1">>
    /\ paper.attrib["page_first"] = <<"1">>
    /\ paper.attrib["page_last"] = <<"1">>
    /\ paper.attrib["pages"] = <<"1", EN, "1">>

\* the pages entry of the last as_bibtex call
HasBibPages == \E i \in 1..Len(bibtex_out.entries) : bibtex_out.entries[i][1] = "pages"

BibPages ==
    LET i == CHOOSE j \in 1..Len(bibtex_out.entries) : bibtex_out.entries[j][1] = "pages"
    IN  bibtex_out.entries[i][2]

\* the pages value of the bibliography record, double hyphens read back as
\* en-dashes, is the display form attrib["pages"]
RoundTrips ==
    StrReplace(BibPages, <<Hyphen, Hyphen>>, <<EN>>) = paper.attrib["pages"]

\* C7 as stated: for every paper with a pages field, split or unsplit, the
\* exported pages value read back is the display form.
C7_PagesRoundTrip ==
    (Built /\ HasBibPages) => RoundTrips

\* no hyphen of s is followed by a hyphen or an en-dash
NoHyphenBeforeDash(s) ==
    \A i \in 1..(Len(s) - 1) : s[i] = Hyphen => s[i + 1] \notin {Hyphen, EN}

\* C7 amended: the exported pages value holds no en-dash, and read back it is
\* the display form exactly when no hyphen of the display form is followed by
\* a hyphen or an en-dash.
C7_PagesRoundTripUnlessHyphenBeforeDash ==
    (Built /\ HasBibPages) =>
        /\ \A i \in 1..Len(BibPages) : BibPages[i] # EN
        /\ RoundTrips <=> NoHyphenBeforeDash(paper.attrib["pages"])

C7_Witness ==
    /\ Built
    /\ HasBibPages
    /\ "page_first" \in DOMAIN paper.attrib
    /\ BibPages = <<"1", Hyphen, Hyphen, "1">>
    /\ RoundTrips

----------------------------------------------------------------------------
(* Export: reads of the derived fields and exports of a finished paper *)

ExportVolumes == { VolumeOf({"title", "xml_booktitle"}, c) : c \in {<<"P">>, <<"J">>} }

\* a url that begins with the identifier of paper 1 of the proceedings
\* volume, and one that does not
GoodUrl == build_anthology_id(<<"P">>, <<"1">>, <<"1">>) \o <<"v", "2">>
BadUrl == <<"x">>

RevisionField == <<"revision", <<[url |-> GoodUrl], [url |-> BadUrl]>> >>
ErratumField == <<"erratum", <<[url |-> GoodUrl]>> >>
AttachmentField == <<"attachment", <<[url |-> BadUrl, type |-> "poster"]>> >>

ExportFieldSeqs ==
    { <<>>,
      <<RevisionField>>,
      <<ErratumField>>,
      <<AttachmentField>>,
      <<RevisionField, ErratumField, AttachmentField>>,
      << <<"xml_url", <<"u">> >> >>,
      << <<"xml_url", <<"u">> >>, RevisionField>>,
      << <<"bibkey", <<"k">> >>, <<"pages", <<"1", Hyphen, "1">> >> >> }

ExportElements ==
    { [attrs |-> [k \in {"id"} |-> i], fields |-> fs] :
        <<i, fs>> \in {<<"0">>, <<"1">>} \X ExportFieldSeqs }

\* the cached properties a caller reads
ReadProps == {"url", "pdf", "revisions", "errata", "attachments", "title", "booktitle"}

InitExport == InitWith(ExportVolumes)

NextExport ==
    \/ FromXml(ExportElements)
    \/ Read(ReadProps)
    \/ AsDict
    \/ AsBibtex
    \/ SetBibkey({<<"k", "2">>})
    \/ Forget

SpecExport == InitExport /\ [][NextExport]_vars

\* the step is a read or an export of the paper, or an assignment to bibkey
OnPaper == outcome = "built" /\ outcome' = "built"

\* nothing of the paper but its bibkey and its attrib changes
SamePaperFields ==
    /\ paper'._id = paper._id
    /\ paper'._ingest_date = paper._ingest_date
    /\ paper'.is_volume = paper.is_volume

\* C9 as stated: reads and exports leave attrib unchanged, with the url of
\* every revision, erratum and attachment record; only bibkey can change.
C9_ExportLeavesAttribUnchanged ==
    [][OnPaper => (SamePaperFields /\ paper'.attrib = paper.attrib)]_vars

\* the attrib keys that hold record lists, and the property that reads each
RecordKeys == {"revision", "erratum", "attachment"}
PropertyOf(k) ==
    CASE k = "revision" -> "revisions"
      [] k = "erratum" -> "errata"
      [] k = "attachment" -> "attachments"

\* C9 amended: reads and exports leave the keys of attrib and every value
\* unchanged, except the url of the revision, erratum and attachment records:
\* the first read of revisions, errata or attachments (as_dict reads all
\* three) rewrites the url of each record of its list in place, once; no
\* later read or export changes it again.  Only bibkey changes otherwise.
C9_ExportRewritesRecordUrlsOnce ==
    [][OnPaper =>
        /\ SamePaperFields
        /\ DOMAIN paper'.attrib = DOMAIN paper.attrib
        /\ \A k \in (DOMAIN paper.attrib) \ RecordKeys : paper'.attrib[k] = paper.attrib[k]
        /\ \A k \in (DOMAIN paper.attrib) \cap RecordKeys :
              LET old == paper.attrib[k]
                  new == paper'.attrib[k]
                  firstRead == /\ PropertyOf(k) \notin DOMAIN cache
                               /\ PropertyOf(k) \in DOMAIN cache'
              IN  /\ Len(new) = Len(old)
                  /\ \A i \in 1..Len(old) : [new[i] EXCEPT !.url = <<>>] =
                                            [old[i] EXCEPT !.url = <<>>]
                  /\ ~firstRead => new = old
                  /\ firstRead =>
                        \A i \in 1..Len(old) :
                            /\ new[i].url # old[i].url
                            /\ SubSeq(new[i].url, 2, Len(new[i].url)) = old[i].url
       ]_vars

C9_Witness ==
    /\ Built
    /\ "revision" \in FieldKeys
    /\ "thumbnail" \in DOMAIN dict_out
    /\ "revisions" \in DOMAIN cache
    /\ paper.attrib["revision"][1].url # FieldValue("revision")[1].url
    /\ Len(bibtex_out.entries) > 0

====
